---- MODULE Spec2Model ----
(***************************************************************************)
(* ChatGroove: the chat directory, the message log and the read tracking   *)
(* of server/storage.ts (DatabaseStorage, PostgreSQL through drizzle) and  *)
(* of the in-memory engine (MemoryStorage), behind the request handlers of *)
(* server/routes.ts.                                                       *)
(*                                                                         *)
(* A DatabaseStorage method is a sequence of awaited SQL statements; each  *)
(* statement is atomic and other requests run between two statements, so   *)
(* every statement is one step of a request process.  A MemoryStorage      *)
(* method has no await between its reads and its writes and is one step.   *)
(***************************************************************************)
EXTENDS Integers, Sequences, FiniteSets, TLC

\* ---------------------------------------------------------------- bounds
NumUsers == 2
NumProcs == 2
MaxChats == 2
MaxMsgs == 2
MaxClock == 1
MaxExtra == 1
CapInput == 1
MemberChats == 1
ReadProcs == 1
ReadMsgs == 2
MaxText == 1
EditMsgs == 2
AdminMsgs == 1
RemoveMsgs == 2
ListChats == 2
ListLimit == 2
Subject == 2

\* ------------------------------------------------------ program constants
DefaultMaxMembers == 1000
DirectMaxMembers == 2
DefaultLimit == 50

Users == 1..NumUsers
Procs == 1..NumProcs
Engines == {"pg", "mem"}

\* results of a call: a chat id (> 0), Ok, or Err for a thrown error
Ok == 0
Err == -1
BadRequest == 400
Unauthorized == 401
NotFound == 404
Denied == 403

\* a column that is NULL: no message, no time
NoMsg == 0
NoTime == -1

Roles == {"user", "moderator", "admin"}

\* A row of the users table, as far as the routes read it
Account(role) == [role |-> role, isBanned |-> FALSE, isRestricted |-> FALSE]

VARIABLES
  engine,      \* the storage engine behind IStorage, chosen at deployment
  users,       \* ids of the rows of the users table
  accounts,    \* user id -> role, isBanned, isRestricted of the users row
  chats,       \* chat id -> row of the chats table
  messages,    \* message id -> row of the messages table
  nextChatId,  \* ids are never reused (gen_random_uuid / chatIdCounter)
  nextMsgId,
  now,         \* the server clock read by new Date() and defaultNow()
  procs,       \* request handlers in flight: position and local variables
  last         \* the operation step taken last (observation only)

vars == <<engine, users, accounts, chats, messages, nextChatId, nextMsgId, now, procs, last>>

\* a request without a body
NoBody == [content |-> <<>>, replyToId |-> NoMsg]

\* A handler: its position and its locals (req: what it keeps of the request)
Idle ==
  [pc |-> "idle", c |-> 0, u |-> 0, v |-> 0, snap |-> <<>>, pend |-> {},
   solo |-> TRUE, req |-> NoBody, role |-> "none"]

\* The record of the step taken last: proc is the handler whose
\* getOrCreateDirectChat or markChatMessagesAsRead call the step leaves in
\* flight, and 0 after any other step.  A step that completes one of these
\* calls records the call: its arguments, its result, and solo: no step of
\* another call was taken between the first and the last step of the call.
Ev(op, p, a, b, ret, solo) ==
  [op |-> op, proc |-> p, a |-> a, b |-> b, ret |-> ret, solo |-> solo]

Other(p) == Ev("other", p, 0, 0, Ok, TRUE)

\* whether handler p has run without a step of another call since it began
StillSolo(p) == procs[p].solo /\ last.proc = p

\* ---------------------------------------------------------------- helpers
Range(s) == {s[i] : i \in 1..Len(s)}

Includes(s, x) == \E i \in 1..Len(s) : s[i] = x

RECURSIVE Filter(_, _)
\* participants.filter(id => id !== userId)
Filter(s, x) ==
  IF s = <<>> THEN <<>>
  ELSE IF Head(s) = x THEN Filter(Tail(s), x)
       ELSE <<Head(s)>> \o Filter(Tail(s), x)

SeqsUpTo(S, k) == UNION {[1..j -> S] : j \in 0..k}

\* the rows of f with a key in S
Restrict(f, S) == [x \in S |-> f[x]]

Min(S) == CHOOSE x \in S : \A y \in S : x <= y

ChatRow(isGroup, isGlobalRoom, maxMembers, isPublic, createdBy, participants) ==
  [isGroup |-> isGroup, isGlobalRoom |-> isGlobalRoom, maxMembers |-> maxMembers,
   isPublic |-> isPublic, createdBy |-> createdBy, participants |-> participants,
   updatedAt |-> now]

\* --------------------------------------------------------- chat directory
\* The request bodies POST /api/chats accepts (insertChatSchema).
ChatBodies ==
  [isGroup : BOOLEAN, isGlobalRoom : BOOLEAN,
   maxMembers : {CapInput, DefaultMaxMembers},
   isPublic : {TRUE},
   participants : SeqsUpTo(Users, MaxExtra)]

\* POST /api/chats: one insert, the caller first in the participant list.
CreateChatRoute(u, body) ==
  /\ u \in users
  /\ nextChatId <= MaxChats
  /\ chats' = chats @@ (nextChatId :>
        ChatRow(body.isGroup, body.isGlobalRoom, body.maxMembers, body.isPublic,
                u, <<u>> \o body.participants))
  /\ nextChatId' = nextChatId + 1
  /\ last' = Other(0)
  /\ UNCHANGED <<engine, users, accounts, messages, nextMsgId, now, procs>>

\* The WHERE clause of the lookup of DatabaseStorage.getOrCreateDirectChat:
\* participants @> [userId1, userId2] AND jsonb_array_length(participants) = 2
DirectMatchPg(row, a, b) ==
  /\ row.isGroup = FALSE
  /\ row.isGlobalRoom = FALSE
  /\ {a, b} \subseteq Range(row.participants)
  /\ Len(row.participants) = 2

\* The predicate of chatsArray.find in MemoryStorage.getOrCreateDirectChat.
DirectMatchMem(row, a, b) ==
  /\ ~row.isGroup
  /\ ~row.isGlobalRoom
  /\ Len(row.participants) = 2
  /\ Includes(row.participants, a)
  /\ Includes(row.participants, b)

DirectRow(a, b) ==
  ChatRow(FALSE, FALSE, DirectMaxMembers, FALSE, a, <<a, b>>)

\* DatabaseStorage.getOrCreateDirectChat, first statement: the select.  The
\* query has no ORDER BY, so the row bound to existingChat is any match.
DirectLookup(p, a, b) ==
  /\ engine = "pg"
  /\ procs[p].pc = "idle"
  /\ a \in users
  /\ LET found == {c \in DOMAIN chats : DirectMatchPg(chats[c], a, b)} IN
       IF found # {}
       THEN /\ \E c \in found : last' = Ev("direct", 0, a, b, c, TRUE)
            /\ UNCHANGED procs
       ELSE /\ procs' = [procs EXCEPT ![p] = [Idle EXCEPT !.pc = "directCreate", !.u = a, !.v = b]]
            /\ last' = Other(p)
  /\ UNCHANGED <<engine, users, accounts, chats, messages, nextChatId, nextMsgId, now>>

\* DatabaseStorage.getOrCreateDirectChat, second statement: the insert of
\* createChat.  chats.createdBy references users.id: the insert throws when
\* the caller's row is gone.
DirectCreate(p) ==
  /\ engine = "pg"
  /\ procs[p].pc = "directCreate"
  /\ LET a == procs[p].u
         b == procs[p].v IN
       IF a \in users
       THEN /\ nextChatId <= MaxChats
            /\ chats' = chats @@ (nextChatId :> DirectRow(a, b))
            /\ nextChatId' = nextChatId + 1
            /\ last' = Ev("direct", 0, a, b, nextChatId, StillSolo(p))
       ELSE /\ last' = Ev("direct", 0, a, b, Err, StillSolo(p))
            /\ UNCHANGED <<chats, nextChatId>>
  /\ procs' = [procs EXCEPT ![p] = Idle]
  /\ UNCHANGED <<engine, users, accounts, messages, nextMsgId, now>>

\* MemoryStorage.getOrCreateDirectChat: find and createChat run without an
\* await in between; find returns the first match in insertion order.
DirectMem(a, b) ==
  /\ engine = "mem"
  /\ a \in users
  /\ LET found == {c \in DOMAIN chats : DirectMatchMem(chats[c], a, b)} IN
       IF found # {}
       THEN /\ last' = Ev("direct", 0, a, b, Min(found), TRUE)
            /\ UNCHANGED <<chats, nextChatId>>
       ELSE /\ nextChatId <= MaxChats
            /\ chats' = chats @@ (nextChatId :> DirectRow(a, b))
            /\ nextChatId' = nextChatId + 1
            /\ last' = Ev("direct", 0, a, b, nextChatId, TRUE)
  /\ UNCHANGED <<engine, users, accounts, messages, nextMsgId, now, procs>>


ChatIds == 1..MaxChats
MsgIds == 1..MaxMsgs

\* p is free to take the first step of a storage call with arguments c, u:
\* either a fresh call, or the call its route handler has prepared
Enters(p, pc, c, u) ==
  \/ procs[p].pc = "idle"
  \/ procs[p].pc = pc /\ procs[p].c = c /\ procs[p].u = u

\* POST /api/chats/global/:roomId/join up to the call of addChatParticipant
JoinGlobalRoom(p, c, u) ==
  /\ procs[p].pc = "idle"
  /\ u \in users
  /\ IF c \notin DOMAIN chats \/ ~chats[c].isGlobalRoom
     THEN /\ last' = Other(0)
          /\ UNCHANGED procs
     ELSE IF Includes(chats[c].participants, u)
     THEN /\ last' = Other(0)
          /\ UNCHANGED procs
     ELSE /\ procs' = [procs EXCEPT ![p] = [Idle EXCEPT !.pc = "addSelect", !.c = c, !.u = u]]
          /\ last' = Other(0)
  /\ UNCHANGED <<engine, users, accounts, chats, messages, nextChatId, nextMsgId, now>>

\* DatabaseStorage.addChatParticipant, the select
AddSelect(p, c, u) ==
  /\ engine = "pg"
  /\ Enters(p, "addSelect", c, u)
  /\ IF c \in DOMAIN chats /\ ~Includes(chats[c].participants, u)
     THEN /\ procs' = [procs EXCEPT ![p] =
                 [Idle EXCEPT !.pc = "addUpdate", !.c = c, !.u = u,
                              !.snap = chats[c].participants]]
          /\ last' = Other(0)
     ELSE /\ procs' = [procs EXCEPT ![p] = Idle]
          /\ last' = Other(0)
  /\ UNCHANGED <<engine, users, accounts, chats, messages, nextChatId, nextMsgId, now>>

\* DatabaseStorage.addChatParticipant, the update: the list read by the
\* select with userId appended
AddUpdate(p) ==
  /\ engine = "pg"
  /\ procs[p].pc = "addUpdate"
  /\ LET c == procs[p].c
         u == procs[p].u IN
       /\ chats' = IF c \in DOMAIN chats
                   THEN [chats EXCEPT ![c].participants = procs[p].snap \o <<u>>,
                                      ![c].updatedAt = now]
                   ELSE chats
       /\ last' = Other(0)
  /\ procs' = [procs EXCEPT ![p] = Idle]
  /\ UNCHANGED <<engine, users, accounts, messages, nextChatId, nextMsgId, now>>

\* MemoryStorage.joinChat
JoinChatMem(p, c, u) ==
  /\ engine = "mem"
  /\ Enters(p, "addSelect", c, u)
  /\ chats' = IF c \in DOMAIN chats /\ ~Includes(chats[c].participants, u)
              THEN [chats EXCEPT ![c].participants = @ \o <<u>>,
                                 ![c].updatedAt = now]
              ELSE chats
  /\ last' = Other(0)
  /\ procs' = [procs EXCEPT ![p] = Idle]
  /\ UNCHANGED <<engine, users, accounts, messages, nextChatId, nextMsgId, now>>

\* DatabaseStorage.removeChatParticipant, the select
RemoveSelect(p, c, u) ==
  /\ engine = "pg"
  /\ procs[p].pc = "idle"
  /\ IF c \in DOMAIN chats /\ Includes(chats[c].participants, u)
     THEN /\ procs' = [procs EXCEPT ![p] =
                 [Idle EXCEPT !.pc = "removeUpdate", !.c = c, !.u = u,
                              !.snap = chats[c].participants]]
          /\ last' = Other(0)
     ELSE /\ last' = Other(0)
          /\ UNCHANGED procs
  /\ UNCHANGED <<engine, users, accounts, chats, messages, nextChatId, nextMsgId, now>>

\* DatabaseStorage.removeChatParticipant, the update
RemoveUpdate(p) ==
  /\ engine = "pg"
  /\ procs[p].pc = "removeUpdate"
  /\ LET c == procs[p].c
         u == procs[p].u IN
       /\ chats' = IF c \in DOMAIN chats
                   THEN [chats EXCEPT ![c].participants = Filter(procs[p].snap, u),
                                      ![c].updatedAt = now]
                   ELSE chats
       /\ last' = Other(0)
  /\ procs' = [procs EXCEPT ![p] = Idle]
  /\ UNCHANGED <<engine, users, accounts, messages, nextChatId, nextMsgId, now>>

\* MemoryStorage.leaveChat
LeaveChatMem(c, u) ==
  /\ engine = "mem"
  /\ chats' = IF c \in DOMAIN chats
              THEN [chats EXCEPT ![c].participants = Filter(@, u),
                                 ![c].updatedAt = now]
              ELSE chats
  /\ last' = Other(0)
  /\ UNCHANGED <<engine, users, accounts, messages, nextChatId, nextMsgId, now, procs>>

\* DatabaseStorage.deleteUser, first statement: delete the user's messages.
\* messages.replyToId references messages.id without a cascade: the delete
\* throws while a message that stays replies to one of them.
DeleteUserMessages(p, u) ==
  /\ engine = "pg"
  /\ Enters(p, "adminDelUser", 0, u)
  /\ LET gone == {m \in DOMAIN messages : messages[m].senderId = u}
         referenced == \E m \in DOMAIN messages \ gone : messages[m].replyToId \in gone IN
       IF referenced
       THEN UNCHANGED <<messages, procs>>
       ELSE /\ messages' = Restrict(messages, DOMAIN messages \ gone)
            /\ procs' = [procs EXCEPT ![p] = [Idle EXCEPT !.pc = "delUserSelect", !.u = u]]
  /\ last' = Other(0)
  /\ UNCHANGED <<engine, users, accounts, chats, nextChatId, nextMsgId, now>>

\* DatabaseStorage.deleteUser, the select of the chats the user is in:
\* userId = ANY(participants).  participants is a jsonb column, and ANY
\* wants an SQL array: a server that rejects the statement makes the call
\* throw here, the messages already deleted; one that evaluates it returns
\* the chats that list the user.
DeleteUserSelect(p) ==
  /\ engine = "pg"
  /\ procs[p].pc = "delUserSelect"
  /\ LET u == procs[p].u
         userChats == {c \in DOMAIN chats : Includes(chats[c].participants, u)} IN
       \/ procs' = [procs EXCEPT ![p] = Idle]
       \/ procs' = [procs EXCEPT ![p] =
             [Idle EXCEPT !.pc = IF userChats = {} THEN "delUserFinal" ELSE "delUserLoop",
                          !.u = u,
                          !.snap = [c \in userChats |-> chats[c].participants],
                          !.pend = userChats]]
  /\ last' = Other(0)
  /\ UNCHANGED <<engine, users, accounts, chats, messages, nextChatId, nextMsgId, now>>

\* DatabaseStorage.deleteUser, one update of the loop over userChats
DeleteUserUpdate(p) ==
  /\ engine = "pg"
  /\ procs[p].pc = "delUserLoop"
  /\ \E c \in procs[p].pend :
       /\ chats' = IF c \in DOMAIN chats
                   THEN [chats EXCEPT ![c].participants = Filter(procs[p].snap[c], procs[p].u)]
                   ELSE chats
       /\ procs' = [procs EXCEPT ![p].pend = @ \ {c},
                                 ![p].pc = IF procs[p].pend = {c} THEN "delUserFinal" ELSE @]
       /\ last' = Other(0)
  /\ UNCHANGED <<engine, users, accounts, messages, nextChatId, nextMsgId, now>>

\* DatabaseStorage.deleteUser, last statement: delete the users row.
\* chats.createdBy and messages.senderId reference users.id without a
\* cascade, so the delete throws while a row still refers to the user.
DeleteUserFinal(p) ==
  /\ engine = "pg"
  /\ procs[p].pc = "delUserFinal"
  /\ LET u == procs[p].u
         referenced == \/ \E c \in DOMAIN chats : chats[c].createdBy = u
                       \/ \E m \in DOMAIN messages : messages[m].senderId = u IN
       IF referenced
       THEN /\ last' = Other(0)
            /\ UNCHANGED users
       ELSE /\ users' = users \ {u}
            /\ last' = Other(0)
  /\ procs' = [procs EXCEPT ![p] = Idle]
  /\ UNCHANGED <<engine, accounts, chats, messages, nextChatId, nextMsgId, now>>

\* MemoryStorage.deleteUser
DeleteUserMem(u) ==
  /\ engine = "mem"
  /\ chats' = [c \in DOMAIN chats |-> [chats[c] EXCEPT !.participants = Filter(@, u)]]
  /\ messages' = Restrict(messages, {m \in DOMAIN messages : messages[m].senderId # u})
  /\ users' = users \ {u}
  /\ last' = Other(0)
  /\ UNCHANGED <<engine, accounts, nextChatId, nextMsgId, now, procs>>


\* ------------------------------------------------------------ message log
\* A row of the messages table.  readBy lists the user ids of the column's
\* {userId, readAt} entries in order; no operation reads readAt.
MessageRow(c, u, body) ==
  [chatId |-> c, senderId |-> u, content |-> body.content,
   replyToId |-> body.replyToId, editedAt |-> NoTime, readBy |-> <<>>,
   createdAt |-> now]

\* the body of a POST .../messages request with a text and no reply target
PlainBody == [content |-> <<"a">>, replyToId |-> NoMsg]

MessagesOf(c) == {m \in DOMAIN messages : messages[m].chatId = c}

\* the check left out: every message counts as not yet read by the user
HasReadNever(readBy, u) == FALSE

\* readBy.some(read => read.userId === userId)
HasRead(readBy, u) == \E i \in 1..Len(readBy) : readBy[i] = u

\* the participant test left out: every caller may append to a chat that exists
SendCheckBodyOpen(p, c, u, body) ==
  /\ procs[p].pc = "idle"
  /\ u \in users
  /\ nextMsgId <= MaxMsgs
  /\ IF c \notin DOMAIN chats
     THEN UNCHANGED procs /\ last' = Ev("send", 0, 0, 0, NotFound, TRUE)
     ELSE /\ procs' = [procs EXCEPT ![p] =
                 [Idle EXCEPT !.pc = "msgInsert", !.c = c, !.u = u, !.req = body]]
          /\ last' = Other(0)
  /\ UNCHANGED <<engine, users, accounts, chats, messages, nextChatId, nextMsgId, now>>

\* POST /api/chats/:chatId/messages up to the call of createMessage.  No
\* request arrives once the log holds MaxMsgs messages.
SendCheckBody(p, c, u, body) ==
  /\ procs[p].pc = "idle"
  /\ u \in users
  /\ nextMsgId <= MaxMsgs
  /\ IF c \notin DOMAIN chats
     THEN UNCHANGED procs /\ last' = Ev("send", 0, 0, 0, NotFound, TRUE)
     ELSE IF ~chats[c].isGlobalRoom /\ ~Includes(chats[c].participants, u)
     THEN UNCHANGED procs /\ last' = Ev("send", 0, 0, 0, Denied, TRUE)
     ELSE /\ procs' = [procs EXCEPT ![p] =
                 [Idle EXCEPT !.pc = "msgInsert", !.c = c, !.u = u, !.req = body]]
          /\ last' = Other(0)
  /\ UNCHANGED <<engine, users, accounts, chats, messages, nextChatId, nextMsgId, now>>

\* ... for a request with a text and no reply target
SendCheck(p, c, u) == SendCheckBody(p, c, u, PlainBody)

\* DatabaseStorage.createMessage, the insert.  messages.chatId,
\* messages.senderId and messages.replyToId are foreign keys: the insert
\* throws when a referenced row is missing, and the handler answers 500.
MsgInsertPg(p) ==
  /\ engine = "pg"
  /\ procs[p].pc = "msgInsert"
  /\ LET c == procs[p].c
         u == procs[p].u
         body == procs[p].req IN
       IF /\ c \in DOMAIN chats
          /\ u \in users
          /\ body.replyToId = NoMsg \/ body.replyToId \in DOMAIN messages
       THEN /\ nextMsgId <= MaxMsgs
            /\ messages' = messages @@ (nextMsgId :> MessageRow(c, u, body))
            /\ nextMsgId' = nextMsgId + 1
            /\ procs' = [procs EXCEPT ![p] = [Idle EXCEPT !.pc = "msgBump", !.c = c]]
            /\ last' = Other(0)
       ELSE /\ procs' = [procs EXCEPT ![p] = Idle]
            /\ last' = Other(0)
            /\ UNCHANGED <<messages, nextMsgId>>
  /\ UNCHANGED <<engine, users, accounts, chats, nextChatId, now>>

\* DatabaseStorage.createMessage, the update of the chat's updatedAt
MsgBump(p) ==
  /\ engine = "pg"
  /\ procs[p].pc = "msgBump"
  /\ chats' = IF procs[p].c \in DOMAIN chats
              THEN [chats EXCEPT ![procs[p].c].updatedAt = now]
              ELSE chats
  /\ procs' = [procs EXCEPT ![p] = Idle]
  /\ last' = Other(0)
  /\ UNCHANGED <<engine, users, accounts, messages, nextChatId, nextMsgId, now>>

\* MemoryStorage.createMessage
MsgInsertMem(p) ==
  /\ engine = "mem"
  /\ procs[p].pc = "msgInsert"
  /\ nextMsgId <= MaxMsgs
  /\ messages' = messages @@ (nextMsgId :> MessageRow(procs[p].c, procs[p].u, procs[p].req))
  /\ nextMsgId' = nextMsgId + 1
  /\ procs' = [procs EXCEPT ![p] = Idle]
  /\ last' = Other(0)
  /\ UNCHANGED <<engine, users, accounts, chats, nextChatId, now>>

\* ----------------------------------------------------------- read tracking
\* POST /api/chats/:chatId/read, DatabaseStorage.markChatMessagesAsRead: the
\* select of the chat's messages.  The loop awaits one update per message
\* the selected rows show unread (pend, with the readBy read for each in
\* snap); with none the call ends here.
MarkSelect(p, c, u) ==
  /\ engine = "pg"
  /\ procs[p].pc = "idle"
  /\ u \in users
  /\ LET pend == {m \in MessagesOf(c) : ~HasRead(messages[m].readBy, u)}
         snap == [m \in pend |-> messages[m].readBy] IN
       IF pend = {}
       THEN /\ last' = Ev("markRead", 0, c, u, Ok, TRUE)
            /\ UNCHANGED procs
       ELSE /\ procs' = [procs EXCEPT ![p] =
                   [Idle EXCEPT !.pc = "markLoop", !.c = c, !.u = u,
                                !.snap = snap, !.pend = pend]]
            /\ last' = Other(p)
  /\ UNCHANGED <<engine, users, accounts, chats, messages, nextChatId, nextMsgId, now>>

\* DatabaseStorage.markChatMessagesAsRead, one update of the loop: the
\* readBy read by the select with the user appended
MarkUpdate(p) ==
  /\ engine = "pg"
  /\ procs[p].pc = "markLoop"
  /\ \E m \in procs[p].pend :
       /\ messages' = IF m \in DOMAIN messages
                      THEN [messages EXCEPT ![m].readBy = procs[p].snap[m] \o <<procs[p].u>>]
                      ELSE messages
       /\ IF procs[p].pend = {m}
          THEN /\ procs' = [procs EXCEPT ![p] = Idle]
               /\ last' = Ev("markRead", 0, procs[p].c, procs[p].u, Ok, StillSolo(p))
          ELSE /\ procs' = [procs EXCEPT ![p].pend = @ \ {m},
                                         ![p].snap = Restrict(@, procs[p].pend \ {m}),
                                         ![p].solo = StillSolo(p)]
               /\ last' = Other(p)
  /\ UNCHANGED <<engine, users, accounts, chats, nextChatId, nextMsgId, now>>

\* MemoryStorage.markChatMessagesAsRead
MarkChatMem(c, u) ==
  /\ engine = "mem"
  /\ u \in users
  /\ messages' = [m \in DOMAIN messages |->
        IF messages[m].chatId = c /\ ~HasRead(messages[m].readBy, u)
        THEN [messages[m] EXCEPT !.readBy = @ \o <<u>>]
        ELSE messages[m]]
  /\ last' = Ev("markRead", 0, c, u, Ok, TRUE)
  /\ UNCHANGED <<engine, users, accounts, chats, nextChatId, nextMsgId, now, procs>>

\* DatabaseStorage.markMessageAsRead, the select
MarkOneSelect(p, m, u) ==
  /\ engine = "pg"
  /\ procs[p].pc = "idle"
  /\ IF m \in DOMAIN messages /\ ~HasRead(messages[m].readBy, u)
     THEN /\ procs' = [procs EXCEPT ![p] =
                 [Idle EXCEPT !.pc = "markOneUpdate", !.c = m, !.u = u,
                              !.snap = messages[m].readBy]]
          /\ last' = Other(0)
     ELSE /\ UNCHANGED procs
          /\ last' = Other(0)
  /\ UNCHANGED <<engine, users, accounts, chats, messages, nextChatId, nextMsgId, now>>

\* DatabaseStorage.markMessageAsRead, the update
MarkOneUpdate(p) ==
  /\ engine = "pg"
  /\ procs[p].pc = "markOneUpdate"
  /\ messages' = IF procs[p].c \in DOMAIN messages
                 THEN [messages EXCEPT ![procs[p].c].readBy = procs[p].snap \o <<procs[p].u>>]
                 ELSE messages
  /\ procs' = [procs EXCEPT ![p] = Idle]
  /\ last' = Other(0)
  /\ UNCHANGED <<engine, users, accounts, chats, nextChatId, nextMsgId, now>>

\* MemoryStorage.markMessageAsRead
MarkOneMem(m, u) ==
  /\ engine = "mem"
  /\ messages' = IF m \in DOMAIN messages /\ ~HasRead(messages[m].readBy, u)
                 THEN [messages EXCEPT ![m].readBy = @ \o <<u>>]
                 ELSE messages
  /\ last' = Other(0)
  /\ UNCHANGED <<engine, users, accounts, chats, nextChatId, nextMsgId, now, procs>>

\* jsonb values, as far as the unread query needs them
JsonNull == [t |-> "null", v |-> <<>>]
JsonArray(s) == [t |-> "array", v |-> s]

\* jsonb -> text: the field of a JSON object; NULL for any other value
JsonbObjectField(j, key) ==
  IF j.t = "object" THEN j.v[key] ELSE JsonNull

\* SELECT jsonb_array_elements_text(j): the elements of an array as rows;
\* the function is strict, a NULL argument yields no row
JsonbArrayElementsText(j) ==
  IF j.t = "null" THEN {} ELSE Range(j.v)

\* The WHERE clause of the unread count of DatabaseStorage.getUserChats:
\* NOT (userId = ANY(SELECT jsonb_array_elements_text(readBy -> 'userId')))
UnreadMatchPg(row, u) ==
  ~(u \in JsonbArrayElementsText(JsonbObjectField(JsonArray(row.readBy), "userId")))

\* unreadCount of chat c in getUserChats(u): the count query of
\* DatabaseStorage, the constant of MemoryStorage.getChatWithParticipants
UnreadCount(c, u) ==
  IF engine = "pg"
  THEN Cardinality({m \in MessagesOf(c) : UnreadMatchPg(messages[m], u)})
  ELSE 0

\* the orderings of a finite set
Perms(S) ==
  {s \in [1..Cardinality(S) -> S] : \A i, j \in 1..Cardinality(S) : i # j => s[i] # s[j]}

\* Array.prototype.reverse
Reverse(s) == [i \in 1..Len(s) |-> s[Len(s) + 1 - i]]

\* LIMIT n, slice(0, n)
Take(s, n) == SubSeq(s, 1, IF Len(s) < n THEN Len(s) ELSE n)

\* DatabaseStorage.getChatMessages: the chat's messages joined with their
\* senders, ORDER BY createdAt DESC LIMIT limit, reversed.  Rows of equal
\* createdAt come in any order.  The results the call can return, as ids.
GetChatMessagesPg(c, limit) ==
  LET rows == {m \in MessagesOf(c) : messages[m].senderId \in users}
      sorted == {s \in Perms(rows) : \A i \in 1..(Len(s) - 1) :
                   messages[s[i]].createdAt >= messages[s[i + 1]].createdAt}
  IN {Reverse(Take(s, limit)) : s \in sorted}

\* MemoryStorage.getChatMessages without before: the chat's messages whose
\* sender exists, in insertion order, sorted newest first by a stable sort,
\* cut at limit.
GetChatMessagesMem(c, limit) ==
  LET rows == {m \in MessagesOf(c) : messages[m].senderId \in users}
      sorted == CHOOSE s \in Perms(rows) : \A i, j \in 1..Len(s) : i < j =>
                   \/ messages[s[i]].createdAt > messages[s[j]].createdAt
                   \/ /\ messages[s[i]].createdAt = messages[s[j]].createdAt
                      /\ s[i] < s[j]
  IN Take(sorted, limit)

\* MemoryStorage.getChatMessages with before: the sorted list from the
\* position of the message before on, that message included, cut at limit;
\* the whole list when before is its first entry or is not in it.
GetChatMessagesBeforeMem(c, limit, before) ==
  LET rows == {m \in MessagesOf(c) : messages[m].senderId \in users}
      sorted == CHOOSE s \in Perms(rows) : \A i, j \in 1..Len(s) : i < j =>
                   \/ messages[s[i]].createdAt > messages[s[j]].createdAt
                   \/ /\ messages[s[i]].createdAt = messages[s[j]].createdAt
                      /\ s[i] < s[j]
      at == {i \in 1..Len(sorted) : sorted[i] = before}
  IN IF at # {} /\ Min(at) > 1
     THEN Take(SubSeq(sorted, Min(at), Len(sorted)), limit)
     ELSE Take(sorted, limit)

\* GET /api/chats/:chatId/messages?limit=..&before=..: the route reads
\* limit only and calls getChatMessages(chatId, userId, limit).  The
\* results the engine can return.
ListMessagesRoute(c, limit, before) ==
  IF engine = "pg"
  THEN GetChatMessagesPg(c, limit)
  ELSE {GetChatMessagesMem(c, limit)}

\* GET /api/chats/:chatId/messages without a limit parameter: the results
\* the engine can return
GetChatMessages(c) ==
  IF engine = "pg"
  THEN GetChatMessagesPg(c, DefaultLimit)
  ELSE {GetChatMessagesMem(c, DefaultLimit)}

\* ------------------------------------------------------------ chat lists
\* the outcome of a call that throws
Thrown == <<Err>>

\* DatabaseStorage.getUserChats: the chats with userId = ANY(participants)
\* that are no global rooms, ORDER BY updatedAt DESC; rows of equal
\* updatedAt come in any order.  participants is a jsonb column and ANY
\* takes an array: the statement may be rejected.  The outcomes, as ids.
GetUserChatsPg(u) ==
  LET rows == {c \in DOMAIN chats :
                 Includes(chats[c].participants, u) /\ ~chats[c].isGlobalRoom}
      sorted == {s \in Perms(rows) : \A i \in 1..(Len(s) - 1) :
                   chats[s[i]].updatedAt >= chats[s[i + 1]].updatedAt}
  IN sorted \cup {Thrown}

\* lastMessage?.createdAt || updatedAt of MemoryStorage.getUserChats: the
\* latest createdAt of the chat's messages whose sender exists, else the
\* chat's updatedAt
SortKeyMem(c) ==
  LET ms == {m \in MessagesOf(c) : messages[m].senderId \in users} IN
    IF ms = {} THEN chats[c].updatedAt
    ELSE LET last_m == CHOOSE m \in ms : \A n \in ms : messages[m].createdAt >= messages[n].createdAt
         IN messages[last_m].createdAt

\* MemoryStorage.getUserChats: every chat that lists the user, global rooms
\* too, in insertion order, sorted newest key first by a stable sort
GetUserChatsMem(u) ==
  LET rows == {c \in DOMAIN chats : Includes(chats[c].participants, u)} IN
    CHOOSE s \in Perms(rows) : \A i, j \in 1..Len(s) : i < j =>
      \/ SortKeyMem(s[i]) > SortKeyMem(s[j])
      \/ SortKeyMem(s[i]) = SortKeyMem(s[j]) /\ s[i] < s[j]

\* GET /api/chats: the outcomes the engine can produce
GetUserChats(u) ==
  IF engine = "pg" THEN GetUserChatsPg(u) ELSE {GetUserChatsMem(u)}

\* ---------------------------------------------------------- message edit
\* the texts a request carries: characters are a blank or a letter
Chars == {" ", "a"}

Texts == SeqsUpTo(Chars, MaxText)

\* String.prototype.trim: the text without leading and trailing blanks
RECURSIVE Trim(_)
Trim(t) ==
  IF t = <<>> THEN <<>>
  ELSE IF Head(t) = " " THEN Trim(Tail(t))
  ELSE IF t[Len(t)] = " " THEN Trim(SubSeq(t, 1, Len(t) - 1))
  ELSE t

\* the ownership test left out: every caller may edit a message that exists
EditCheckOpen(p, m, u, text) ==
  /\ procs[p].pc = "idle"
  /\ u \in users
  /\ IF Trim(text) = <<>>
     THEN UNCHANGED procs /\ last' = Ev("edit", 0, m, u, BadRequest, TRUE)
     ELSE IF engine = "mem"
     THEN UNCHANGED procs /\ last' = Ev("edit", 0, m, u, Err, TRUE)
     ELSE IF m \notin DOMAIN messages
     THEN UNCHANGED procs /\ last' = Ev("edit", 0, m, u, Denied, TRUE)
     ELSE /\ procs' = [procs EXCEPT ![p] =
                 [Idle EXCEPT !.pc = "editUpdate", !.c = m, !.u = u,
                              !.req = [content |-> Trim(text), replyToId |-> NoMsg]]]
          /\ last' = Other(0)
  /\ UNCHANGED <<engine, users, accounts, chats, messages, nextChatId, nextMsgId, now>>

\* PUT /api/messages/:messageId up to the call of updateMessage: 400 for a
\* text that is blank after trim, 403 unless getMessageById finds the
\* message and the caller sent it.  MemoryStorage has no getMessageById: the
\* call throws and the handler answers 500.
EditCheck(p, m, u, text) ==
  /\ procs[p].pc = "idle"
  /\ u \in users
  /\ IF Trim(text) = <<>>
     THEN UNCHANGED procs /\ last' = Ev("edit", 0, m, u, BadRequest, TRUE)
     ELSE IF engine = "mem"
     THEN UNCHANGED procs /\ last' = Ev("edit", 0, m, u, Err, TRUE)
     ELSE IF m \notin DOMAIN messages \/ messages[m].senderId # u
     THEN UNCHANGED procs /\ last' = Ev("edit", 0, m, u, Denied, TRUE)
     ELSE /\ procs' = [procs EXCEPT ![p] =
                 [Idle EXCEPT !.pc = "editUpdate", !.c = m, !.u = u,
                              !.req = [content |-> Trim(text), replyToId |-> NoMsg]]]
          /\ last' = Other(0)
  /\ UNCHANGED <<engine, users, accounts, chats, messages, nextChatId, nextMsgId, now>>

\* DatabaseStorage.updateMessage: one update of content and editedAt; it
\* changes no row when the message is gone.
EditUpdate(p) ==
  /\ procs[p].pc = "editUpdate"
  /\ LET m == procs[p].c IN
       messages' = IF m \in DOMAIN messages
                   THEN [messages EXCEPT ![m].content = procs[p].req.content,
                                         ![m].editedAt = now]
                   ELSE messages
  /\ procs' = [procs EXCEPT ![p] = Idle]
  /\ last' = Other(0)
  /\ UNCHANGED <<engine, users, accounts, chats, nextChatId, nextMsgId, now>>

\* ------------------------------------------------------- message removal
\* DELETE /api/messages/:messageId up to the call of deleteMessage: 403
\* unless getMessageById finds the message and the caller sent it.
\* MemoryStorage has no getMessageById: the call throws, the answer is 500.
DeleteMsgCheck(p, m, u) ==
  /\ procs[p].pc = "idle"
  /\ u \in users
  /\ IF engine = "mem"
     THEN UNCHANGED procs /\ last' = Ev("delete", 0, m, u, Err, TRUE)
     ELSE IF m \notin DOMAIN messages \/ messages[m].senderId # u
     THEN UNCHANGED procs /\ last' = Ev("delete", 0, m, u, Denied, TRUE)
     ELSE /\ procs' = [procs EXCEPT ![p] = [Idle EXCEPT !.pc = "msgDelete", !.c = m, !.v = u]]
          /\ last' = Other(0)
  /\ UNCHANGED <<engine, users, accounts, chats, messages, nextChatId, nextMsgId, now>>

\* deleteMessage, called by the sender's route or by the admin route.
\* DatabaseStorage: one delete; messages.replyToId references messages.id
\* without a cascade, so it throws while another message replies to the
\* row, and the handler answers 500.  MemoryStorage: messages.delete.
DeleteMessage(p) ==
  /\ procs[p].pc \in {"msgDelete", "adminDelMsg"}
  /\ LET m == procs[p].c
         referenced == \E r \in DOMAIN messages : messages[r].replyToId = m IN
       IF engine = "pg" /\ m \in DOMAIN messages /\ referenced
       THEN /\ last' = Ev("delete", 0, m, procs[p].v, Err, TRUE)
            /\ UNCHANGED messages
       ELSE /\ last' = Ev("delete", 0, m, procs[p].v, Ok, TRUE)
            /\ messages' = Restrict(messages, DOMAIN messages \ {m})
  /\ procs' = [procs EXCEPT ![p] = Idle]
  /\ UNCHANGED <<engine, users, accounts, chats, nextChatId, nextMsgId, now>>

\* ----------------------------------------------------------- admin routes
\* the routes behind authenticateAdmin, by the position their handler takes
UserOps == {"adminRestrict", "adminUnrestrict", "adminBan", "adminUnban"}

AdminOps == UserOps \cup {"adminRole", "adminDelUser", "adminDelChat", "adminDelMsg"}

\* the role test left out: every user with a valid token passes
AuthenticateAdminOpen(p, u, op, target, role) ==
  /\ procs[p].pc = "idle"
  /\ IF u \notin users
     THEN UNCHANGED procs /\ last' = Ev("admin", 0, 0, u, Unauthorized, TRUE)
     ELSE /\ procs' = [procs EXCEPT ![p] =
                 [Idle EXCEPT !.pc = op,
                              !.c = IF op = "adminDelUser" THEN 0 ELSE target,
                              !.u = IF op = "adminDelUser" THEN target ELSE 0,
                              !.v = u, !.role = role]]
          /\ last' = Other(0)
  /\ UNCHANGED <<engine, users, accounts, chats, messages, nextChatId, nextMsgId, now>>

\* authenticateAdmin in front of an admin route: 401 when the token's user
\* is gone, 403 unless the user's role is admin, else the route's handler
\* runs with the request's target and (for the role route) role.
AuthenticateAdmin(p, u, op, target, role) ==
  /\ procs[p].pc = "idle"
  /\ IF u \notin users
     THEN UNCHANGED procs /\ last' = Ev("admin", 0, 0, u, Unauthorized, TRUE)
     ELSE IF accounts[u].role # "admin"
     THEN UNCHANGED procs /\ last' = Ev("admin", 0, 0, u, Denied, TRUE)
     ELSE /\ procs' = [procs EXCEPT ![p] =
                 [Idle EXCEPT !.pc = op,
                              !.c = IF op = "adminDelUser" THEN 0 ELSE target,
                              !.u = IF op = "adminDelUser" THEN target ELSE 0,
                              !.v = u, !.role = role]]
          /\ last' = Other(0)
  /\ UNCHANGED <<engine, users, accounts, chats, messages, nextChatId, nextMsgId, now>>

\* PUT /api/admin/users/:userId/role: 400 for a role outside the three,
\* else updateUserRole, which changes no row when the user is gone.
AdminUpdateUserRole(p) ==
  /\ procs[p].pc = "adminRole"
  /\ LET t == procs[p].c IN
       accounts' = IF procs[p].role \in Roles /\ t \in users
                   THEN [accounts EXCEPT ![t].role = procs[p].role]
                   ELSE accounts
  /\ procs' = [procs EXCEPT ![p] = Idle]
  /\ last' = Other(0)
  /\ UNCHANGED <<engine, users, chats, messages, nextChatId, nextMsgId, now>>

\* updateUser(t, {field: value}) at the end of a restrict / unrestrict /
\* ban / unban route.  It changes no row when the user is gone (the route's
\* own getUser answers 404, DatabaseStorage updates nothing, MemoryStorage
\* throws).
SetFlag(p, pc, field, value) ==
  /\ procs[p].pc = pc
  /\ LET t == procs[p].c IN
       accounts' = IF t \in users
                   THEN [accounts EXCEPT ![t] = [@ EXCEPT ![field] = value]]
                   ELSE accounts
  /\ procs' = [procs EXCEPT ![p] = Idle]
  /\ last' = Other(0)
  /\ UNCHANGED <<engine, users, chats, messages, nextChatId, nextMsgId, now>>

\* PATCH /api/admin/users/:userId/restrict
AdminRestrict(p) == SetFlag(p, "adminRestrict", "isRestricted", TRUE)

\* PATCH /api/admin/users/:userId/unrestrict
AdminUnrestrict(p) == SetFlag(p, "adminUnrestrict", "isRestricted", FALSE)

\* PATCH /api/admin/users/:userId/ban
AdminBan(p) == SetFlag(p, "adminBan", "isBanned", TRUE)

\* PATCH /api/admin/users/:userId/unban
AdminUnban(p) == SetFlag(p, "adminUnban", "isBanned", FALSE)

\* DELETE /api/admin/users/:userId on MemoryStorage.deleteUser
AdminDeleteUserMem(p) ==
  /\ engine = "mem"
  /\ procs[p].pc = "adminDelUser"
  /\ LET u == procs[p].u IN
       /\ chats' = [c \in DOMAIN chats |-> [chats[c] EXCEPT !.participants = Filter(@, u)]]
       /\ messages' = Restrict(messages, {m \in DOMAIN messages : messages[m].senderId # u})
       /\ users' = users \ {u}
  /\ procs' = [procs EXCEPT ![p] = Idle]
  /\ last' = Other(0)
  /\ UNCHANGED <<engine, accounts, nextChatId, nextMsgId, now>>

\* DatabaseStorage.deleteChat, first statement: delete the chat's messages.
\* It throws while a message of another chat replies to one of them.
AdminDeleteChatMessages(p) ==
  /\ engine = "pg"
  /\ procs[p].pc = "adminDelChat"
  /\ LET c == procs[p].c
         gone == MessagesOf(c)
         referenced == \E r \in DOMAIN messages \ gone : messages[r].replyToId \in gone IN
       IF referenced
       THEN /\ procs' = [procs EXCEPT ![p] = Idle]
            /\ UNCHANGED messages
       ELSE /\ procs' = [procs EXCEPT ![p].pc = "adminDelChatRow"]
            /\ messages' = Restrict(messages, DOMAIN messages \ gone)
  /\ last' = Other(0)
  /\ UNCHANGED <<engine, users, accounts, chats, nextChatId, nextMsgId, now>>

\* DatabaseStorage.deleteChat, second statement: delete the chats row.
\* messages.chatId references chats.id without a cascade: it throws when a
\* message was inserted into the chat since the first statement.
AdminDeleteChatRow(p) ==
  /\ engine = "pg"
  /\ procs[p].pc = "adminDelChatRow"
  /\ LET c == procs[p].c IN
       chats' = IF MessagesOf(c) = {} THEN Restrict(chats, DOMAIN chats \ {c}) ELSE chats
  /\ procs' = [procs EXCEPT ![p] = Idle]
  /\ last' = Other(0)
  /\ UNCHANGED <<engine, users, accounts, messages, nextChatId, nextMsgId, now>>

\* MemoryStorage.deleteChat
AdminDeleteChatMem(p) ==
  /\ engine = "mem"
  /\ procs[p].pc = "adminDelChat"
  /\ LET c == procs[p].c IN
       /\ messages' = Restrict(messages, DOMAIN messages \ MessagesOf(c))
       /\ chats' = Restrict(chats, DOMAIN chats \ {c})
  /\ procs' = [procs EXCEPT ![p] = Idle]
  /\ last' = Other(0)
  /\ UNCHANGED <<engine, users, accounts, nextChatId, nextMsgId, now>>

\* the server clock advances
Tick ==
  /\ now < MaxClock
  /\ now' = now + 1
  /\ UNCHANGED <<engine, users, accounts, chats, messages, nextChatId, nextMsgId, procs, last>>

\* ------------------------------------------------------------------ init
Init ==
  /\ engine \in Engines
  /\ users = Users
  /\ accounts = [u \in Users |-> Account(IF u = 1 THEN "admin" ELSE "user")]
  /\ chats = <<>>
  /\ messages = <<>>
  /\ nextChatId = 1
  /\ nextMsgId = 1
  /\ now = 0
  /\ procs = [p \in Procs |-> Idle]
  /\ last = Other(0)

NextDirect ==
  \/ \E p \in Procs, a \in Users, b \in Users : DirectLookup(p, a, b)
  \/ \E p \in Procs : DirectCreate(p)
  \/ \E a \in Users, b \in Users : DirectMem(a, b)

SpecDirect == Init /\ [][NextDirect]_vars

\* The chat directory, one chat created through POST /api/chats.
NextMember ==
  \/ \E u \in Users, body \in ChatBodies : nextChatId <= MemberChats /\ CreateChatRoute(u, body)
  \/ \E p \in Procs, c \in ChatIds, u \in Users : JoinGlobalRoom(p, c, u)
  \/ \E p \in Procs, c \in ChatIds, u \in Users : AddSelect(p, c, u)
  \/ \E p \in Procs : AddUpdate(p)
  \/ \E p \in Procs, c \in ChatIds, u \in Users : JoinChatMem(p, c, u)
  \/ \E p \in Procs, c \in ChatIds, u \in Users : RemoveSelect(p, c, u)
  \/ \E p \in Procs : RemoveUpdate(p)
  \/ \E c \in ChatIds, u \in Users : LeaveChatMem(c, u)

SpecMember == Init /\ [][NextMember]_vars

NextDeleteUser ==
  \/ \E p \in Procs, u \in Users : DeleteUserMessages(p, u)
  \/ \E p \in Procs : DeleteUserSelect(p)
  \/ \E p \in Procs : DeleteUserUpdate(p)
  \/ \E p \in Procs : DeleteUserFinal(p)
  \/ \E u \in Users : DeleteUserMem(u)

\* The chat directory with its five operations, following one chat.
NextChat ==
  \/ NextMember
  \/ NextDeleteUser
  \/ NextDirect /\ nextChatId' <= MemberChats + 1

SpecChat == Init /\ [][NextChat]_vars

\* request bodies of POST /api/chats for a group chat with default cap
GroupBodies == {b \in ChatBodies : b.isGroup /\ ~b.isGlobalRoom /\ b.maxMembers = DefaultMaxMembers}

\* Appending to the message log of one group chat, created by user 1.
NextSend ==
  \/ \E body \in GroupBodies :
       nextChatId <= MemberChats /\ CreateChatRoute(1, body)
  \/ \E p \in Procs, c \in ChatIds, u \in Users : SendCheck(p, c, u)
  \/ \E p \in Procs : MsgInsertPg(p)
  \/ \E p \in Procs : MsgBump(p)
  \/ \E p \in Procs : MsgInsertMem(p)

\* The handlers that serve the requests of SpecRead
Readers == 1..ReadProcs

\* the request body of POST /api/chats for a group chat with user 2
PairBody ==
  [isGroup |-> TRUE, isGlobalRoom |-> FALSE, maxMembers |-> DefaultMaxMembers,
   isPublic |-> TRUE, participants |-> <<2>>]

\* a markChatMessagesAsRead call is in flight
MarkInFlight == \E q \in Procs : procs[q].pc = "markLoop"

\* The message log of one group chat of users 1 and 2, created by user 1,
\* and the marking of the chat as read by any user, one mark call at a
\* time, appends running alongside.
NextRead ==
  \/ chats = <<>> /\ CreateChatRoute(1, PairBody)
  \/ \E p \in Readers, c \in DOMAIN chats, u \in Users :
       nextMsgId <= ReadMsgs /\ SendCheck(p, c, u)
  \/ \E p \in Readers : MsgInsertPg(p)
  \/ \E p \in Readers : MsgBump(p)
  \/ \E p \in Readers : MsgInsertMem(p)
  \/ \E p \in Readers, c \in DOMAIN chats, u \in Users :
       ~MarkInFlight /\ MarkSelect(p, c, u)
  \/ \E p \in Readers : MarkUpdate(p)
  \/ \E c \in DOMAIN chats, u \in Users : MarkChatMem(c, u)

\* The message log and the marking of chats and of single messages.
NextMark ==
  \/ NextSend
  \/ \E p \in Procs, c \in ChatIds, u \in Users : MarkSelect(p, c, u)
  \/ \E p \in Procs : MarkUpdate(p)
  \/ \E c \in ChatIds, u \in Users : MarkChatMem(c, u)
  \/ \E p \in Procs, m \in MsgIds, u \in Users : MarkOneSelect(p, m, u)
  \/ \E p \in Procs : MarkOneUpdate(p)
  \/ \E m \in MsgIds, u \in Users : MarkOneMem(m, u)

\* The message log under a running clock.
NextOrder == NextSend \/ Tick

\* a group chat or a global room whose only participant is its creator
SoloBody(isGlobalRoom) ==
  [isGroup |-> TRUE, isGlobalRoom |-> isGlobalRoom, maxMembers |-> DefaultMaxMembers,
   isPublic |-> TRUE, participants |-> <<>>]

\* Appending to one chat of user 1, by participants and by others, to
\* chats that exist and to chat ids that do not.
NextAppend ==
  \/ \E g \in BOOLEAN : chats = <<>> /\ CreateChatRoute(1, SoloBody(g))
  \/ \E p \in Procs, c \in ChatIds, u \in Users :
       nextMsgId <= ReadMsgs /\ SendCheck(p, c, u)
  \/ \E p \in Procs : MsgInsertPg(p)
  \/ \E p \in Procs : MsgBump(p)
  \/ \E p \in Procs : MsgInsertMem(p)

SpecAppend == Init /\ [][NextAppend]_vars

\* Editing the messages of one chat of users 1 and 2.
NextEdit ==
  \/ chats = <<>> /\ CreateChatRoute(1, PairBody)
  \/ \E p \in Readers, c \in DOMAIN chats, u \in Users :
       nextMsgId <= EditMsgs /\ SendCheck(p, c, u)
  \/ \E p \in Readers : MsgInsertPg(p)
  \/ \E p \in Readers : MsgBump(p)
  \/ \E p \in Readers : MsgInsertMem(p)
  \/ \E p \in Readers, m \in 1..EditMsgs, u \in Users, text \in Texts : EditCheck(p, m, u, text)
  \/ \E p \in Readers : EditUpdate(p)

SpecEdit == Init /\ [][NextEdit]_vars

\* the roles a role request may name: the three roles and one that is none
RoleInputs == Roles \cup {"owner"}

\* the positions of a handler that runs behind authenticateAdmin
AdminPcs == AdminOps \cup {"delUserSelect", "delUserLoop", "delUserFinal", "adminDelChatRow"}

\* an admin request is being served
AdminInFlight == \E q \in Readers : procs[q].pc \in AdminPcs

\* The admin routes aimed at user Subject, the one chat of users 1 and 2
\* and its messages, called by every user, one admin request at a time.
\* User 1 starts as the admin.
NextAdmin ==
  \/ nextChatId = 1 /\ CreateChatRoute(1, PairBody)
  \/ \E p \in Readers, c \in DOMAIN chats, u \in Users :
       nextMsgId <= AdminMsgs /\ SendCheck(p, c, u)
  \/ \E p \in Readers : MsgInsertPg(p)
  \/ \E p \in Readers : MsgBump(p)
  \/ \E p \in Readers : MsgInsertMem(p)
  \/ \E p \in Readers, u \in Users, op \in UserOps \cup {"adminDelUser"}, t \in {Subject} :
       ~AdminInFlight /\ AuthenticateAdmin(p, u, op, t, "none")
  \/ \E p \in Readers, u \in Users, t \in {Subject}, role \in RoleInputs :
       ~AdminInFlight /\ AuthenticateAdmin(p, u, "adminRole", t, role)
  \/ \E p \in Readers, u \in Users, c \in ChatIds :
       ~AdminInFlight /\ AuthenticateAdmin(p, u, "adminDelChat", c, "none")
  \/ \E p \in Readers, u \in Users, m \in 1..AdminMsgs :
       ~AdminInFlight /\ AuthenticateAdmin(p, u, "adminDelMsg", m, "none")
  \/ \E p \in Readers : AdminUpdateUserRole(p)
  \/ \E p \in Readers : AdminRestrict(p)
  \/ \E p \in Readers : AdminUnrestrict(p)
  \/ \E p \in Readers : AdminBan(p)
  \/ \E p \in Readers : AdminUnban(p)
  \/ \E p \in Readers, u \in Users : procs[p].pc # "idle" /\ DeleteUserMessages(p, u)
  \/ \E p \in Readers : DeleteUserSelect(p)
  \/ \E p \in Readers : DeleteUserUpdate(p)
  \/ \E p \in Readers : DeleteUserFinal(p)
  \/ \E p \in Readers : AdminDeleteUserMem(p)
  \/ \E p \in Readers : AdminDeleteChatMessages(p)
  \/ \E p \in Readers : AdminDeleteChatRow(p)
  \/ \E p \in Readers : AdminDeleteChatMem(p)
  \/ \E p \in Readers : DeleteMessage(p)

SpecAdmin == Init /\ [][NextAdmin]_vars

\* The admin routes next to the sender's own delete route.
NextModerate ==
  \/ NextAdmin
  \/ \E p \in Readers, m \in 1..AdminMsgs, u \in Users : DeleteMsgCheck(p, m, u)

SpecModerate == Init /\ [][NextModerate]_vars

\* the body of a POST .../messages request that replies to message r
ReplyBody(r) == [content |-> <<"a">>, replyToId |-> r]

\* Sending messages and replies to one chat of users 1 and 2 and deleting
\* them, by the sender's route and by the admin route.
NextRemove ==
  \/ nextChatId = 1 /\ CreateChatRoute(1, PairBody)
  \/ \E p \in Readers, c \in DOMAIN chats, u \in Users, r \in {NoMsg} \cup DOMAIN messages :
       nextMsgId <= RemoveMsgs /\ SendCheckBody(p, c, u, ReplyBody(r))
  \/ \E p \in Readers : MsgInsertPg(p)
  \/ \E p \in Readers : MsgBump(p)
  \/ \E p \in Readers : MsgInsertMem(p)
  \/ \E p \in Readers, m \in 1..RemoveMsgs, u \in Users : DeleteMsgCheck(p, m, u)
  \/ \E p \in Readers, m \in 1..RemoveMsgs, u \in Users :
       AuthenticateAdmin(p, u, "adminDelMsg", m, "none")
  \/ \E p \in Readers : DeleteMessage(p)

SpecRemove == Init /\ [][NextRemove]_vars

\* Group chats and global rooms of user 1, with sends by users 1 and 2
\* under a running clock.
NextList ==
  \/ \E g \in BOOLEAN, ps \in {<<>>, <<2>>} :
       /\ nextChatId <= ListChats
       /\ CreateChatRoute(1, [SoloBody(g) EXCEPT !.participants = ps])
  \/ \E p \in Readers, c \in DOMAIN chats, u \in Users :
       nextMsgId <= ReadMsgs /\ SendCheck(p, c, u)
  \/ \E p \in Readers : MsgInsertPg(p)
  \/ \E p \in Readers : MsgBump(p)
  \/ \E p \in Readers : MsgInsertMem(p)
  \/ Tick

SpecList == Init /\ [][NextList]_vars

\* Sending to one chat of users 1 and 2 while the admin routes delete it.
NextDeleteChat ==
  \/ nextChatId = 1 /\ CreateChatRoute(1, PairBody)
  \/ \E p \in Procs, c \in DOMAIN chats, u \in Users :
       nextMsgId <= ReadMsgs /\ SendCheck(p, c, u)
  \/ \E p \in Procs : MsgInsertPg(p)
  \/ \E p \in Procs : MsgBump(p)
  \/ \E p \in Procs : MsgInsertMem(p)
  \/ \E p \in Procs, u \in Users, c \in DOMAIN chats :
       AuthenticateAdmin(p, u, "adminDelChat", c, "none")
  \/ \E p \in Procs : AdminDeleteChatMessages(p)
  \/ \E p \in Procs : AdminDeleteChatRow(p)
  \/ \E p \in Procs : AdminDeleteChatMem(p)

SpecDeleteChat == Init /\ [][NextDeleteChat]_vars

\* Joining a group chat and a global room of user 1 through the join
\* route, while the admin bans and unbans a user.
NextBan ==
  \/ \E g \in BOOLEAN : nextChatId <= ListChats /\ CreateChatRoute(1, SoloBody(g))
  \/ \E p \in Readers, u \in Users, op \in {"adminBan", "adminUnban"} :
       AuthenticateAdmin(p, u, op, Subject, "none")
  \/ \E p \in Readers : AdminBan(p)
  \/ \E p \in Readers : AdminUnban(p)
  \/ \E p \in Readers, c \in ChatIds, u \in Users : JoinGlobalRoom(p, c, u)
  \/ \E p \in Readers, c \in ChatIds, u \in Users :
       procs[p].pc # "idle" /\ AddSelect(p, c, u)
  \/ \E p \in Readers : AddUpdate(p)
  \/ \E p \in Readers, c \in ChatIds, u \in Users :
       procs[p].pc # "idle" /\ JoinChatMem(p, c, u)

SpecBan == Init /\ [][NextBan]_vars

SpecMark == Init /\ [][NextMark]_vars

SpecOrder == Init /\ [][NextOrder]_vars

SpecRead == Init /\ [][NextRead]_vars

\* One chat of users 1 and 2: appends by any handler racing with the
\* marking of the chat as read, one mark call at a time.
NextRace ==
  \/ chats = <<>> /\ CreateChatRoute(1, PairBody)
  \/ \E p \in Procs, c \in DOMAIN chats, u \in Users :
       nextMsgId <= ReadMsgs /\ SendCheck(p, c, u)
  \/ \E p \in Procs : MsgInsertPg(p)
  \/ \E p \in Procs : MsgBump(p)
  \/ \E p \in Procs : MsgInsertMem(p)
  \/ \E p \in Procs, c \in DOMAIN chats, u \in Users :
       ~MarkInFlight /\ MarkSelect(p, c, u)
  \/ \E p \in Procs : MarkUpdate(p)
  \/ \E c \in DOMAIN chats, u \in Users : MarkChatMem(c, u)

SpecRace == Init /\ [][NextRace]_vars

\* ---------------------------------------------------------------- claims
IsDirect(row) == ~row.isGroup /\ ~row.isGlobalRoom

DirectChatsOf(a, b) ==
  {c \in DOMAIN chats : IsDirect(chats[c]) /\ Range(chats[c].participants) = {a, b}}

\* the step begins a getOrCreateDirectChat(a, b) call
DirectCall(a, b) ==
  \/ \E p \in Procs : DirectLookup(p, a, b)
  \/ DirectMem(a, b)

\* C1: concurrent getOrCreateDirectChat(A,B) calls for distinct A, B leave
\* exactly one chat with participant set {A,B}, every call returns that
\* chat, and no call fails.
C1_OneDirectChatPerPair ==
  /\ \A a \in Users, b \in Users :
       a # b => Cardinality(DirectChatsOf(a, b)) <= 1
  /\ (last.op = "direct" /\ last.a # last.b) =>
       /\ last.ret # Err
       /\ DirectChatsOf(last.a, last.b) = {last.ret}

\* C3: getOrCreateDirectChat(U1,U2) and then, as the next step,
\* getOrCreateDirectChat(U2,U1): the second call returns the chat id the
\* first returned and creates no chat.
C3_ArgumentOrder ==
  [][(/\ last.op = "direct"
      /\ last.a # last.b
      /\ DirectCall(last.b, last.a))
     => (/\ last'.op = "direct"
         /\ last'.ret = last.ret
         /\ chats' = chats)]_vars

\* C4: a getOrCreateDirectChat(u,u) call fails (SameUser), and the step
\* that completes it leaves the set of chats unchanged.
C4_SameUserRejected ==
  [][(last'.op = "direct" /\ last'.a = last'.b)
       => (last'.ret = Err /\ chats' = chats)]_vars

\* C2: invariant I1: every direct chat (isGroup = false, isGlobalRoom =
\* false) has exactly two participants, and no two direct chats have the
\* same pair of participants.
C2_DirectChatInvariant ==
  /\ \A c \in DOMAIN chats : IsDirect(chats[c]) =>
       /\ Len(chats[c].participants) = 2
       /\ Cardinality(Range(chats[c].participants)) = 2
  /\ \A c, d \in DOMAIN chats :
       (c # d /\ IsDirect(chats[c]) /\ IsDirect(chats[d]))
         => Range(chats[c].participants) # Range(chats[d].participants)

\* the step is the insert of a message by handler p
AppendBy(p) == (MsgInsertPg(p) \/ MsgInsertMem(p)) /\ messages' # messages

\* the messages of chat c that user u did not send
FromOthers(c, u) == {m \in MessagesOf(c) : messages[m].senderId # u}

\* C5: a user's own messages never count as unread for that user:
\* unreadCount(chat, X) counts only messages whose sender is not X, and an
\* append by X leaves unreadCount(chat, X) unchanged.
C5_OwnMessagesNotUnread ==
  /\ [](\A c \in DOMAIN chats, x \in Users :
          UnreadCount(c, x) <= Cardinality(FromOthers(c, x)))
  /\ [][\A p \in Procs, c \in ChatIds, x \in Users :
          (procs[p].c = c /\ procs[p].u = x /\ AppendBy(p))
            => UnreadCount(c, x)' = UnreadCount(c, x)]_vars

\* C6: unreadCount is 0 for every participant of a chat without messages,
\* and an append by X raises unreadCount of every other participant of the
\* chat by exactly 1.
C6_UnreadCountsAppends ==
  /\ [](\A c \in DOMAIN chats : \A v \in Range(chats[c].participants) :
          MessagesOf(c) = {} => UnreadCount(c, v) = 0)
  /\ [][\A p \in Procs, c \in DOMAIN chats, x \in Users :
          (procs[p].c = c /\ procs[p].u = x /\ AppendBy(p))
            => \A v \in Range(chats[c].participants) \ {x} :
                 UnreadCount(c, v)' = UnreadCount(c, v) + 1]_vars

\* the step begins a markChatMessagesAsRead(c, u) call
MarkCall(c, u) ==
  \/ \E p \in Procs : MarkSelect(p, c, u)
  \/ MarkChatMem(c, u)

\* C7: markRead(chat, user) twice in a row, no step of another operation
\* within the first call or between the two: the second call is complete
\* in its first step and leaves the stored read state and
\* unreadCount(chat, user) as the first call left them.
C7_MarkReadIdempotent ==
  [][\A c \in ChatIds, u \in Users :
       (/\ last.op = "markRead" /\ last.a = c /\ last.b = u /\ last.solo
        /\ MarkCall(c, u))
       => (/\ last'.op = "markRead"
           /\ messages' = messages
           /\ UnreadCount(c, u)' = UnreadCount(c, u))]_vars

\* a markRead(chat, user) call has run alone on a chat with a message from
\* another user, which the stored read state shows read by the user
C7_Witness ==
  /\ last.op = "markRead"
  /\ last.solo
  /\ \E m \in MessagesOf(last.a) :
       /\ messages[m].senderId # last.b
       /\ HasRead(messages[m].readBy, last.b)
  /\ \A m \in MessagesOf(last.a) : HasRead(messages[m].readBy, last.b)

\* a mark call of user u is in flight
Marking(u) ==
  \E p \in Procs : procs[p].pc \in {"markLoop", "markOneUpdate"} /\ procs[p].u = u

\* C8: read state never regresses: a message read for user u, no mark call
\* of u in flight, stays read for u in the next state unless it is gone.
C8_ReadNeverRegresses ==
  [][\A m \in DOMAIN messages, u \in Users :
       (/\ HasRead(messages[m].readBy, u)
        /\ ~Marking(u)
        /\ m \in DOMAIN messages')
       => HasRead(messages'[m].readBy, u)]_vars

\* the messages of chat c in the order of their appends
AppendOrder(c) ==
  CHOOSE s \in Perms(MessagesOf(c)) : \A i, j \in 1..Len(s) : i < j => s[i] < s[j]

\* C9: listForChat returns the messages of a chat in append order, oldest
\* first, whatever their timestamps.
C9_ListInAppendOrder ==
  \A c \in DOMAIN chats : GetChatMessages(c) = {AppendOrder(c)}

\* C10: addParticipant on a chat whose participant list is at maxMembers
\* leaves the participant list unchanged.
C10_CapEnforced ==
  [][\A p \in Procs, c \in DOMAIN chats, u \in Users :
       (/\ Len(chats[c].participants) >= chats[c].maxMembers
        /\ \/ procs[p].c = c /\ procs[p].u = u /\ AddUpdate(p)
           \/ JoinChatMem(p, c, u))
       => chats'[c].participants = chats[c].participants]_vars

\* C11: in every reachable state every chat has at most maxMembers
\* participants (invariant I2).
C11_WithinMemberCap ==
  \A c \in DOMAIN chats :
    Cardinality(Range(chats[c].participants)) <= chats[c].maxMembers

\* C16: a markChatMessagesAsRead(c, u) call by a user who is not a
\* participant of chat c changes the readBy of no message of c.
C16_MarkReadNeedsParticipant ==
  [][\A p \in Procs, c \in DOMAIN chats, u \in Users :
       (/\ ~Includes(chats[c].participants, u)
        /\ \/ procs[p].c = c /\ procs[p].u = u /\ MarkUpdate(p)
           \/ MarkChatMem(c, u))
       => \A m \in MessagesOf(c) : messages'[m].readBy = messages[m].readBy]_vars

\* C19: every global room is public and was created by the bootstrap step,
\* not by a user's POST /api/chats (invariant I3).
C19_GlobalRoomsOnlySeeded ==
  \A c \in DOMAIN chats :
    chats[c].isGlobalRoom => (chats[c].createdBy \notin Users /\ chats[c].isPublic)

\* C20: a POST /api/chats request for a direct chat (neither group nor
\* global room) creates no chat.
C20_CreateRejectsDirect ==
  [][\A u \in Users, body \in ChatBodies :
       (~body.isGroup /\ ~body.isGlobalRoom /\ CreateChatRoute(u, body))
       => chats' = chats]_vars

C13_DeleteRepliedTo ==
  [][\A p \in Readers, m \in DOMAIN messages, c \in DOMAIN chats :
       (/\ procs[p].c = m
        /\ DeleteMessage(p)
        /\ \E r \in MessagesOf(c) : messages[r].replyToId = m)
       => /\ m \notin DOMAIN messages'
          /\ \A r \in MessagesOf(c) :
               messages[r].replyToId = m
               => \A s \in GetChatMessages(c)' : Includes(s, r)]_vars

\* C14: a user whose role is moderator can delete any message: one of the
\* two delete routes lets the request through to deleteMessage.
C14_ModeratorMayDelete ==
  \A p \in Readers, u \in users, m \in DOMAIN messages :
    (procs[p].pc = "idle" /\ accounts[u].role = "moderator")
    => \/ ENABLED (DeleteMsgCheck(p, m, u) /\ procs'[p].pc = "msgDelete")
       \/ ENABLED (AuthenticateAdmin(p, u, "adminDelMsg", m, "none")
                    /\ procs'[p].pc = "adminDelMsg")

\* the chats getUserChats(u) is to return: u's chats that are no global rooms
OwnChats(u) ==
  {c \in DOMAIN chats : Includes(chats[c].participants, u) /\ ~chats[c].isGlobalRoom}

\* C18: GET /api/chats of user u returns the chats u is a participant of
\* that are no global rooms, each once, latest updatedAt first; right after
\* an append to chat c has completed, c is first for every participant.
C18_ListForUser ==
  /\ [](\A u \in users : \A s \in GetUserChats(u) :
          /\ Range(s) = OwnChats(u)
          /\ Len(s) = Cardinality(OwnChats(u))
          /\ \A i \in 1..(Len(s) - 1) :
               chats[s[i]].updatedAt >= chats[s[i + 1]].updatedAt)
  /\ [][\A p \in Readers, c \in DOMAIN chats, u \in users :
         (/\ procs[p].c = c
          /\ ~chats[c].isGlobalRoom
          /\ Includes(chats[c].participants, u)
          /\ MsgBump(p) \/ (MsgInsertMem(p) /\ messages' # messages))
         => \A s \in GetUserChats(u)' : s # <<>> /\ s[1] = c]_vars

\* C21: every stored message belongs to a chat that exists, and a
\* deleteChat(c) that removes the chat leaves no message of c.
C21_NoOrphanedMessages ==
  /\ [](\A m \in DOMAIN messages : messages[m].chatId \in DOMAIN chats)
  /\ [][\A c \in DOMAIN chats \ DOMAIN chats' :
         \A m \in DOMAIN messages' : messages'[m].chatId # c]_vars

\* the messages user u sent
MessagesBy(u) == {m \in DOMAIN messages : messages[m].senderId = u}

\* the chats user u is a participant of
ChatsWith(u) == {c \in DOMAIN chats : Includes(chats[c].participants, u)}

\* C22: a step of deleteUser(u) leaves u's account, messages and chat
\* memberships all gone or all as they were.
C22_DeleteUserAtomic ==
  [][\A p \in Readers, u \in Users :
       (/\ procs[p].pc \in {"adminDelUser", "delUserSelect", "delUserLoop", "delUserFinal"}
        /\ procs[p].u = u
        /\ procs'[p] # procs[p])
       => \/ u \notin users' /\ MessagesBy(u)' = {} /\ ChatsWith(u)' = {}
          \/ /\ (u \in users') = (u \in users)
             /\ MessagesBy(u)' = MessagesBy(u)
             /\ ChatsWith(u)' = ChatsWith(u)]_vars

\* C23: POST /api/chats/global/:roomId/join by a banned user does not go on
\* to addChatParticipant and changes no chat, and the route adds nobody to
\* a chat that is not a global room.
C23_BannedCannotJoin ==
  /\ [][\A p \in Readers, c \in ChatIds, u \in Users :
         (procs[p].pc = "idle" /\ accounts[u].isBanned /\ JoinGlobalRoom(p, c, u))
         => procs' = procs /\ chats' = chats]_vars
  /\ [][\A c \in DOMAIN chats :
         (c \in DOMAIN chats' /\ chats'[c].participants # chats[c].participants)
         => chats[c].isGlobalRoom]_vars

\* C24: an append that completes leaves the chat's updatedAt at the time of
\* the append; a refused request and a failed insert change neither the
\* chats nor the messages.
C24_AppendBumpsUpdatedAt ==
  /\ [][\A p \in Procs, c \in DOMAIN chats :
         (/\ procs[p].c = c
          /\ MsgBump(p) \/ (MsgInsertMem(p) /\ messages' # messages))
         => chats'[c].updatedAt = now]_vars
  /\ [][(last'.op = "send" /\ last'.ret \in {NotFound, Denied})
         => chats' = chats /\ messages' = messages]_vars
  /\ [][\A p \in Procs :
         (MsgInsertPg(p) /\ messages' = messages)
         => chats' = chats /\ procs'[p].pc = "idle"]_vars

\* message m comes before message n in the order (createdAt, id)
Older(m, n) ==
  \/ messages[m].createdAt < messages[n].createdAt
  \/ messages[m].createdAt = messages[n].createdAt /\ m < n

\* list s holds at most limit messages of chat c, all before the cursor,
\* the newest such, in the order (createdAt, id)
PageBefore(s, c, limit, before) ==
  LET older == {m \in MessagesOf(c) : Older(m, before)} IN
    /\ Len(s) <= limit
    /\ Len(s) = Min({limit, Cardinality(older)})
    /\ Range(s) \subseteq older
    /\ \A m \in Range(s), n \in older \ Range(s) : Older(n, m)
    /\ \A i \in 1..(Len(s) - 1) : Older(s[i], s[i + 1])

\* C25: the listing of a chat with a limit and a cursor, through the route
\* and through MemoryStorage.getChatMessages, is the page before the cursor.
C25_ListBeforeCursor ==
  \A c \in DOMAIN chats, limit \in 1..ListLimit : \A before \in MessagesOf(c) :
    /\ \A s \in ListMessagesRoute(c, limit, before) : PageBefore(s, c, limit, before)
    /\ engine = "mem" => PageBefore(GetChatMessagesBeforeMem(c, limit, before), c, limit, before)

\* the participant list of chat row holds no user twice
Unique(row) == Len(row.participants) = Cardinality(Range(row.participants))

\* C26: no chat lists a user twice among its participants, and a step of
\* addChatParticipant / joinChat leaves no user twice in a list that had
\* none twice.
C26_NoDuplicateParticipants ==
  /\ [](\A c \in DOMAIN chats : Unique(chats[c]))
  /\ [][\A p \in Procs, c \in DOMAIN chats :
         (/\ Unique(chats[c])
          /\ AddUpdate(p) \/ (\E u \in Users : JoinChatMem(p, c, u)))
         => Unique(chats'[c])]_vars

\* C27: the two storage engines answer alike on the same stored rows:
\* getChatMessages returns the same messages in the same order, and
\* getUserChats, where it returns, the same chats in the same order with
\* the same unreadCount.
C27_EnginesInterchangeable ==
  /\ \A c \in DOMAIN chats :
       GetChatMessagesPg(c, DefaultLimit) = {GetChatMessagesMem(c, DefaultLimit)}
  /\ \A u \in Users :
       /\ GetUserChatsPg(u) \ {Thrown} = {GetUserChatsMem(u)}
       /\ \A c \in Range(GetUserChatsMem(u)) :
            Cardinality({m \in MessagesOf(c) : UnreadMatchPg(messages[m], u)}) = 0

\* C28: no join is lost: the step that completes an addChatParticipant /
\* joinChat call on a chat leaves in the chat's participant set the user it
\* adds and every user that was in the set, the users added by calls that
\* completed while this one ran among them.
C28_NoLostJoin ==
  [][\A p \in Procs :
       LET c == procs[p].c
           u == procs[p].u IN
         (/\ c \in DOMAIN chats
          /\ AddUpdate(p) \/ (~Includes(chats[c].participants, u) /\ JoinChatMem(p, c, u)))
         => Range(chats[c].participants) \cup {u} \subseteq Range(chats'[c].participants)]_vars

\* the messages of chat c from other users that are not read for user u
UnreadFromOthers(c, u) ==
  {m \in MessagesOf(c) : messages[m].senderId # u /\ ~HasRead(messages[m].readBy, u)}

\* C29: markRead(chat, u) racing with appends to the chat: when the call
\* completes, unreadCount(chat, u) is at most the number of messages from
\* other users that the call did not mark (those appended after it read
\* the chat), every message it took is read for u, and no step loses a
\* message or alters anything but by adding readers.
C29_MarkReadAppendRace ==
  /\ [][\A c \in DOMAIN chats, u \in Users :
          (/\ last'.op = "markRead" /\ last'.a = c /\ last'.b = u
           /\ MarkCall(c, u) \/ (\E p \in Procs : MarkUpdate(p)))
          => UnreadCount(c, u)' <= Cardinality(UnreadFromOthers(c, u)')]_vars
  /\ [][\A p \in Procs :
          MarkUpdate(p) =>
            \A m \in procs[p].pend \ (IF procs'[p].pc = "markLoop" THEN procs'[p].pend ELSE {}) :
              HasRead(messages'[m].readBy, procs[p].u)]_vars
  /\ [][\A m \in DOMAIN messages :
          /\ m \in DOMAIN messages'
          /\ [messages'[m] EXCEPT !.readBy = messages[m].readBy] = messages[m]
          /\ Range(messages[m].readBy) \subseteq Range(messages'[m].readBy)]_vars

\* C30: after a markRead(chat, u) call of a participant that ran with no
\* step of another operation interleaved, unreadCount(chat, u) of the chat
\* list is 0, and an unreadCount(chat, u) of 0 stays 0 in every step that
\* is not the append of a message of another user to the chat.
C30_ZeroAfterMarkRead ==
  /\ [](\A c \in DOMAIN chats, u \in Users :
          (/\ last.op = "markRead" /\ last.a = c /\ last.b = u
           /\ last.ret = Ok /\ last.solo
           /\ Includes(chats[c].participants, u))
          => UnreadCount(c, u) = 0)
  /\ [][\A c \in DOMAIN chats, u \in Users :
          (/\ UnreadCount(c, u) = 0
           /\ c \in DOMAIN chats'
           /\ ~(\E p \in Procs : procs[p].c = c /\ procs[p].u # u /\ AppendBy(p)))
          => UnreadCount(c, u)' = 0]_vars

====
